---- MODULE Spec2Model ----
(***************************************************************************)
(* Hybrid retrieval engine of JP-LegalBot (src/ai_system/retrieve.py,      *)
(* src/ai_system/db.py, src/ai_system/local_embeddings.py).               *)
(*                                                                         *)
(* Scores are fixed-point hundredths (0.7 is 70, the +0.1 bonus is 10).    *)
(* A text is the set of vocabulary words it contains.  The embedding       *)
(* services are external; they are stood in for by a normalised            *)
(* bag-of-words embedder, so that the inner product of two embeddings is   *)
(* the cosine of the two word sets.                                        *)
(***************************************************************************)
EXTENDS Integers, Sequences, FiniteSets, TLC

(* ------------------------------ bounds --------------------------------- *)
\* largest number of entries of a persisted index
MaxIndex == 2
\* largest k_vec, k_lex and final_k a caller passes
MaxK == 2

(* ------------------------- program constants --------------------------- *)
\* LocalEmbeddings.dimension
LocalDimension == 384
\* default similarity_threshold of search_vectors / hybrid
DefaultThreshold == 70
\* _rerank_candidates: bonus for the first candidate of a document
DiversityBonus == 10
\* _rerank_candidates: bonus for a heading that contains a query word
HeadingBonus == 5
\* hybrid: bonus for a semantic candidate
SemanticBonus == 10

\* dimension of the vectors the remote deployments return (set by the
\* deployment, outside the source; any value other than the local one)
RemoteDimension == 4 * LocalDimension
Dims == {LocalDimension, RemoteDimension}
Thresholds == {DefaultThreshold, DefaultThreshold + 10}

(* --------------------------- document store ---------------------------- *)
\* rows of fts_chunks, by rowid: content, fuente, and the query words that
\* occur in the lowercased heading built by fts_search
Rows == << [content |-> {"permiso"},         fuente |-> "A", heading |-> {"permiso"}],
           [content |-> {"permiso", "zona"}, fuente |-> "A", heading |-> {}],
           [content |-> {"zona"},            fuente |-> "B", heading |-> {"zona"}] >>
RowIds == 1..Len(Rows)

\* str(rowid) and int(chunk_id)
Decimal == << "1", "2", "3", "4", "5", "6", "7", "8", "9" >>
Str(n) == Decimal[n]
IsInt(s) == \E n \in 1..Len(Decimal) : Decimal[n] = s
Int_(s) == CHOOSE n \in 1..Len(Decimal) : Decimal[n] = s

\* queries: the words of the query text, and whether FTS5 can parse it
Queries == { [words |-> {"permiso"},         fts_ok |-> TRUE],
             [words |-> {"permiso", "zona"}, fts_ok |-> TRUE],
             [words |-> {},                  fts_ok |-> FALSE] }

\* the metadata record written for a row when the index is built
MetaOf(r) == [chunk_id |-> Str(r), doc_id |-> Rows[r].fuente,
              heading_path |-> Rows[r].heading]

\* json.dumps(m) + "\n" and json.loads(line): a line of metas.jsonl holds
\* the values of the record, in the order of its keys
JsonLine(m) == << m.chunk_id, m.doc_id, m.heading_path >>
JsonParse(line) == [chunk_id |-> line[1], doc_id |-> line[2], heading_path |-> line[3]]

VARIABLES
  faiss_file,        \* the index file: [state, d, vecs]
  metas_file,        \* metas.jsonl: [state, recs], recs the lines
  db,                \* the SQLite database: "ok", "no_table", "unopenable"
  ctor,              \* "new", "ok", or the exception __init__ raised
  embedding_client,  \* "none", "azure", "openai"
  local_embedder,    \* TRUE when LocalEmbeddings was loaded
  index,             \* self.index: [d, vecs]
  metas,             \* self.metas
  call,              \* the request being served, NoCall when idle
  writer,            \* an add_to_index running in another thread
  auth,              \* SimpleAuth's three credential stores
  limiter            \* the RateLimiter and the threads calling it

vars == << faiss_file, metas_file, db, ctor, embedding_client, local_embedder,
           index, metas, call, writer, auth, limiter >>

NoCall == [op |-> "none"]
NoIndex == [d |-> 0, vecs |-> << >>]
NoWriter == [pc |-> "idle"]
NoAuth == [made |-> FALSE]
NoLimiter == [made |-> FALSE]

Min(a, b) == IF a <= b THEN a ELSE b

\* variant of StableSortDesc: sorted ascending and then reversed, so that
\* equal keys come out in reverse order
SortThenReverse(s, key) ==
  LET n == Len(s)
      Rank(i) == 1 + Cardinality({ j \in 1..n :
                     \/ key[j] > key[i]
                     \/ key[j] = key[i] /\ j > i })
  IN [p \in 1..n |-> s[CHOOSE i \in 1..n : Rank(i) = p]]

\* list.sort(key, reverse=True): descending by key[n], the key of s[n];
\* equal keys keep their order
StableSortDesc(s, key) ==
  LET n == Len(s)
      Rank(i) == 1 + Cardinality({ j \in 1..n :
                     \/ key[j] > key[i]
                     \/ key[j] = key[i] /\ j < i })
  IN [p \in 1..n |-> s[CHOOSE i \in 1..n : Rank(i) = p]]

\* s[:n] for n >= 0
Take(s, n) == SubSeq(s, 1, Min(n, Len(s)))

(* ----------------------------- embeddings ------------------------------ *)
\* inner product of two unit bag-of-words vectors, in hundredths, rounded down
InnerProduct(u, v) ==
  IF u = {} \/ v = {} THEN 0
  ELSE LET n == Cardinality(u \cap v)
           a == Cardinality(u) * Cardinality(v)
       IN CHOOSE s \in 0..100 : s * s * a <= 10000 * n * n
                              /\ (s + 1) * (s + 1) * a > 10000 * n * n

\* the dimension of the vectors the selected provider returns
ProviderDimension ==
  IF embedding_client # "none" THEN RemoteDimension
  ELSE IF local_embedder THEN LocalDimension
  ELSE 1

\* HybridRetriever.embed: the query vector (the Null provider's is [[0.0]])
embed(query) ==
  IF embedding_client # "none" \/ local_embedder
    THEN [d |-> ProviderDimension, v |-> query.words]
    ELSE [d |-> 1, v |-> {}]

(* ---------------------------- vector search ---------------------------- *)
\* variant of has_embeddings: the guard of lines 105-110 left out
has_embeddings_unguarded == TRUE

has_embeddings == embedding_client # "none" \/ local_embedder

\* faiss IndexFlatIP.search: the search_k best (score, position) pairs,
\* best first; positions are 1-based here
FaissSearch(qv, search_k) ==
  LET all == [i \in 1..Len(index.vecs) |->
                [score |-> InnerProduct(qv.v, index.vecs[i]), i |-> i]]
  IN Take(StableSortDesc(all, [i \in 1..Len(all) |-> all[i].score]), search_k)

\* variant of PassesThreshold: no threshold filter
PassesAlways(score, similarity_threshold) == TRUE

\* variant of PassesThreshold: the filter applied to the score with the
\* diversity bonus already added
PassesAfterBonus(score, similarity_threshold) ==
  score + DiversityBonus >= similarity_threshold

\* line 141: the threshold filter
PassesThreshold(score, similarity_threshold) == score >= similarity_threshold

\* lines 134-142: the candidates kept from the hits
Candidate(h) ==
  [chunk_id |-> metas[h.i].chunk_id, doc_id |-> metas[h.i].doc_id,
   heading_path |-> metas[h.i].heading_path, score |-> h.score,
   has_reranked |-> FALSE, reranked_score |-> 0,
   search_type |-> "", combined_score |-> 0, text |-> {}]

RECURSIVE Candidates(_, _)
Candidates(hits, similarity_threshold) ==
  IF hits = << >> THEN << >>
  ELSE LET h == Head(hits)
           rest == Candidates(Tail(hits), similarity_threshold)
       IN IF h.i <= Len(metas) /\ PassesThreshold(h.score, similarity_threshold)
            THEN << Candidate(h) >> \o rest
            ELSE rest

\* the chunk ids the threshold filter discarded
Discarded(hits, similarity_threshold) ==
  { metas[hits[n].i].chunk_id : n \in { m \in 1..Len(hits) :
        /\ hits[m].i <= Len(metas)
        /\ ~PassesThreshold(hits[m].score, similarity_threshold) } }

\* variant of RerankedScore: seen_docs is never filled, so every candidate
\* gets the diversity bonus
RerankedScoreNoSeen(candidates, n, query) ==
  LET cand == candidates[n]
      hit == \E word \in query.words : word \in cand.heading_path
  IN cand.score + DiversityBonus + (IF hit THEN HeadingBonus ELSE 0)

\* _rerank_candidates
RerankedScore(candidates, n, query) ==
  LET cand == candidates[n]
      first == \A m \in 1..(n - 1) : candidates[m].doc_id # cand.doc_id
      hit == \E word \in query.words : word \in cand.heading_path
  IN cand.score + (IF first THEN DiversityBonus ELSE 0)
                + (IF hit THEN HeadingBonus ELSE 0)

_rerank_candidates(candidates, query) ==
  IF candidates = << >> THEN candidates
  ELSE LET scored == [n \in 1..Len(candidates) |->
                        [candidates[n] EXCEPT
                           !.has_reranked = TRUE,
                           !.reranked_score = RerankedScore(candidates, n, query)]]
       IN StableSortDesc(scored, [n \in 1..Len(scored) |-> scored[n].reranked_score])

\* search_vectors: [status, value, embed, searched, below]
\* embed_ok: whether the provider's embedding call succeeds for this request
search_vectors(query, k, similarity_threshold, embed_ok) ==
  LET none == [status |-> "ok", value |-> << >>, embed |-> "not_called",
               searched |-> FALSE, below |-> {}]
  IN IF ~has_embeddings THEN none
     ELSE IF local_embedder /\ index.d # LocalDimension THEN none
     ELSE IF ProviderDimension # 1 /\ ~embed_ok
       THEN [none EXCEPT !.status = "ProviderError", !.embed = "failed"]
     ELSE LET qv == embed(query)
              ntotal == Len(index.vecs)
              search_k == Min(k * 3, ntotal)
          IN IF ntotal = 0 THEN [none EXCEPT !.embed = "ok"]
             ELSE IF qv.d # index.d
               THEN [none EXCEPT !.status = "AssertionError", !.embed = "ok",
                                 !.searched = TRUE]
             ELSE LET hits == FaissSearch(qv, search_k)
                      candidates == Candidates(hits, similarity_threshold)
                  IN [status |-> "ok",
                      value |-> Take(_rerank_candidates(candidates, query), k),
                      embed |-> "ok", searched |-> TRUE,
                      below |-> Discarded(hits, similarity_threshold)]

(* ---------------------------- lexical search --------------------------- *)
\* fts_search: rows whose content MATCHes the query, in rowid order, LIMIT
\* limit; any exception of the query is caught and gives []
RECURSIVE MatchingRows(_, _)
MatchingRows(r, query) ==
  IF r > Len(Rows) THEN << >>
  ELSE (IF query.words \subseteq Rows[r].content THEN << r >> ELSE << >>)
       \o MatchingRows(r + 1, query)

fts_search(query, limit) ==
  IF db = "no_table" \/ ~query.fts_ok THEN << >>
  ELSE Take(MatchingRows(1, query), limit)

\* search_lexical: [status, value, error]; get_conn raises when the
\* database cannot be opened
search_lexical(query, k) ==
  IF db = "unopenable"
    THEN [status |-> "OperationalError", value |-> << >>, error |-> "connect"]
    ELSE LET rows == fts_search(query, k)
         IN [status |-> "ok",
             value |-> [n \in 1..Len(rows) |->
                          [chunk_id |-> Str(rows[n]),
                           doc_id |-> Rows[rows[n]].fuente,
                           heading_path |-> Rows[rows[n]].heading,
                           score |-> 0, has_reranked |-> FALSE,
                           reranked_score |-> 0, search_type |-> "",
                           combined_score |-> 0,
                           text |-> Rows[rows[n]].content]],
             error |-> IF db = "no_table" THEN "no_table"
                       ELSE IF ~query.fts_ok THEN "syntax"
                       ELSE "none"]

\* fetch_texts: [status, texts], texts a function from chunk ids to text
fetch_texts(chunk_ids) ==
  LET empty == [status |-> "ok", texts |-> [c \in {} |-> {}]]
      wanted == { chunk_ids[n] : n \in 1..Len(chunk_ids) } \ {"", "unknown"}
  IN IF chunk_ids = << >> THEN empty
     ELSE IF db = "unopenable" THEN [empty EXCEPT !.status = "OperationalError"]
     ELSE IF \E c \in wanted : ~IsInt(c) THEN empty
     ELSE IF wanted = {} THEN empty
     ELSE IF db = "no_table" THEN [empty EXCEPT !.status = "OperationalError"]
     ELSE [status |-> "ok",
           texts |-> [c \in { w \in wanted : Int_(w) \in RowIds } |->
                        Rows[Int_(c)].content]]

(* ------------------------------- hybrid -------------------------------- *)
\* variant of FuseSemantic: every semantic candidate appended, seen or not
FuseSemanticUnseen(vec) ==
  [n \in 1..Len(vec) |-> [vec[n] EXCEPT !.search_type = "semantic"]]

\* lines 222-229: semantic candidates, first occurrence of each chunk_id
FuseSemantic(vec) ==
  LET keep == { n \in 1..Len(vec) :
                  \A m \in 1..(n - 1) : vec[m].chunk_id # vec[n].chunk_id }
      Nth(p) == CHOOSE n \in keep : Cardinality({ m \in keep : m < n }) = p - 1
  IN [p \in 1..Cardinality(keep) |-> [vec[Nth(p)] EXCEPT !.search_type = "semantic"]]

\* lines 232-241: lexical candidates not seen yet, until 2 * final_k entries
RECURSIVE FuseLexical(_, _, _)
FuseLexical(fused, lex, final_k) ==
  IF lex = << >> THEN fused
  ELSE LET cand == Head(lex)
       IN IF \E n \in 1..Len(fused) : fused[n].chunk_id = cand.chunk_id
            THEN FuseLexical(fused, Tail(lex), final_k)
            ELSE LET more == Append(fused, [cand EXCEPT !.search_type = "lexical"])
                 IN IF Len(more) >= final_k * 2 THEN more
                    ELSE FuseLexical(more, Tail(lex), final_k)

\* lines 244-253
CombinedScore(cand) ==
  LET base_score == cand.score
                    + (IF cand.search_type = "semantic" THEN SemanticBonus ELSE 0)
  IN IF cand.has_reranked /\ cand.reranked_score # 0
       THEN cand.reranked_score
       ELSE base_score

\* variant of Truncate: the 2 * final_k working list returned
TruncateDouble(fused, final_k) == Take(fused, final_k * 2)

\* variant of Truncate: one entry too few
TruncateShort(fused, final_k) == Take(fused, final_k - 1)

\* line 261: fused[:final_k]
Truncate(fused, final_k) == Take(fused, final_k)

\* hybrid: the record of the request
hybrid(query, k_vec, k_lex, final_k, similarity_threshold, embed_ok) ==
  LET v == search_vectors(query, k_vec, similarity_threshold, embed_ok)
      l == search_lexical(query, k_lex)
      base == [op |-> "hybrid", query |-> query, k_vec |-> k_vec, k_lex |-> k_lex,
               final_k |-> final_k, similarity_threshold |-> similarity_threshold,
               embed |-> v.embed, searched |-> v.searched, below |-> v.below,
               vec_status |-> v.status, vec |-> v.value,
               lex_status |-> "skipped", lex_error |-> "none", lex |-> << >>,
               fused |-> << >>, status |-> v.status, result |-> << >>]
  IN IF v.status # "ok" THEN base
     ELSE IF l.status # "ok"
       THEN [base EXCEPT !.lex_status = l.status, !.lex_error = l.error,
                         !.status = l.status]
     ELSE LET merged == FuseLexical(FuseSemantic(v.value), l.value, final_k)
              scored == [n \in 1..Len(merged) |->
                           [merged[n] EXCEPT !.combined_score = CombinedScore(merged[n])]]
              fused == StableSortDesc(scored,
                         [n \in 1..Len(scored) |-> scored[n].combined_score])
              top == Take(fused, final_k)
              t == fetch_texts([n \in 1..Len(top) |-> top[n].chunk_id])
              hydrated == [n \in 1..Len(fused) |->
                             [fused[n] EXCEPT !.text =
                                IF fused[n].chunk_id \in DOMAIN t.texts
                                  THEN t.texts[fused[n].chunk_id] ELSE {}]]
          IN [base EXCEPT !.lex_status = "ok", !.lex_error = l.error,
                          !.lex = l.value, !.fused = fused,
                          !.status = IF t.status = "ok" THEN "returned" ELSE t.status,
                          !.result = IF t.status = "ok"
                                       THEN Truncate(hydrated, final_k) ELSE << >>]

(* ------------------------------ the state ------------------------------ *)
\* the entries of a persisted index: rows of the document store, in any
\* order, a row possibly more than once (duplicate add_to_index calls)
IndexSeqs == UNION { [1..n -> RowIds] : n \in 0..MaxIndex }

Init ==
  /\ \E fs \in {"ok", "missing", "corrupt"}, ms \in {"ok", "missing"},
        d \in Dims, rows \in IndexSeqs :
       /\ fs # "ok" => rows = << >> /\ d = LocalDimension
       /\ faiss_file = [state |-> fs, d |-> d,
                        vecs |-> [n \in 1..Len(rows) |-> Rows[rows[n]].content]]
       /\ metas_file = [state |-> ms,
                        recs |-> IF ms = "ok"
                                   THEN [n \in 1..Len(rows) |-> JsonLine(MetaOf(rows[n]))]
                                   ELSE << >>]
  /\ db \in {"ok", "no_table", "unopenable"}
  /\ ctor = "new"
  /\ embedding_client = "none"
  /\ local_embedder = FALSE
  /\ index = NoIndex
  /\ metas = << >>
  /\ call = NoCall
  /\ writer = NoWriter
  /\ auth = NoAuth
  /\ limiter = NoLimiter

\* HybridRetriever.__init__.  The configuration read from the environment
\* and the outcome of each provider's set-up are the inputs:
\*   endpoint_ok, key_ok   AZURE_OPENAI_ENDPOINT / AZURE_OPENAI_KEY pass lines 16-20
\*   deployment            AZURE_OPENAI_EMBEDDING_DEPLOYMENT is set
\*   openai_key            OPENAI_API_KEY is set and is no placeholder
\*   azure_probe           the test embeddings.create call succeeds
\*   openai_made           OpenAI(api_key=...) succeeds
\*   local_loaded          LocalEmbeddings() succeeds
Construct ==
  /\ ctor = "new"
  /\ \E endpoint_ok, key_ok, deployment, openai_key, azure_probe, openai_made,
        local_loaded \in BOOLEAN :
       LET azure_success == deployment /\ azure_probe
           client == IF azure_success THEN "azure"
                     ELSE IF openai_key /\ openai_made THEN "openai"
                     ELSE "none"
           local == client = "none" /\ local_loaded
       IN IF ~endpoint_ok \/ ~key_ok
            THEN /\ ctor' = "ValueError"
                 /\ UNCHANGED << embedding_client, local_embedder, index, metas >>
          ELSE IF faiss_file.state # "ok"
            THEN /\ ctor' = "IndexReadError"
                 /\ UNCHANGED << embedding_client, local_embedder, index, metas >>
          ELSE /\ ctor' = "ok"
               /\ embedding_client' = client
               /\ local_embedder' = local
               /\ index' = [d |-> faiss_file.d, vecs |-> faiss_file.vecs]
               /\ metas' = IF metas_file.state = "ok"
                             THEN [n \in 1..Len(metas_file.recs) |->
                                     JsonParse(metas_file.recs[n])]
                             ELSE << >>
  /\ UNCHANGED << faiss_file, metas_file, db, call, writer, auth, limiter >>

\* a request: hybrid(query, k_vec, k_lex, final_k, similarity_threshold).
\* AnswerEngine.answer, the caller, passes final_k only, so k_vec and k_lex
\* are always equal (their defaults); they are varied together here
Hybrid ==
  /\ ctor = "ok"
  /\ call = NoCall
  /\ \E query \in Queries, k \in 1..MaxK, final_k \in 0..MaxK,
        similarity_threshold \in Thresholds, embed_ok \in BOOLEAN :
       call' = hybrid(query, k, k, final_k, similarity_threshold, embed_ok)
  /\ UNCHANGED << faiss_file, metas_file, db, ctor, embedding_client,
                  local_embedder, index, metas, writer, auth, limiter >>

\* a direct call of search_vectors(query, k, similarity_threshold)
SearchVectors ==
  /\ ctor = "ok"
  /\ call = NoCall
  /\ \E query \in Queries, k \in 1..MaxK, similarity_threshold \in Thresholds,
        embed_ok \in BOOLEAN :
       LET v == search_vectors(query, k, similarity_threshold, embed_ok)
       IN call' = [op |-> "search_vectors", query |-> query, k_vec |-> k,
                   similarity_threshold |-> similarity_threshold,
                   embed |-> v.embed, searched |-> v.searched, below |-> v.below,
                   vec_status |-> v.status, vec |-> v.value]
  /\ UNCHANGED << faiss_file, metas_file, db, ctor, embedding_client,
                  local_embedder, index, metas, writer, auth, limiter >>

\* the caller takes the result (or the exception); the next request may start
Return ==
  /\ call # NoCall
  /\ call' = NoCall
  /\ UNCHANGED << faiss_file, metas_file, db, ctor, embedding_client,
                  local_embedder, index, metas, writer, auth, limiter >>

Next == Construct \/ Hybrid \/ SearchVectors \/ Return

Spec == Init /\ [][Next]_vars

(* --------------------------- index mutation ---------------------------- *)
\* a metadata record without the key chunk_id
Absent == "<absent>"

\* str(uuid.uuid4()): an id no other call returns; the n-th record of
\* self.metas gets the n-th one
Uuids == << "u1", "u2", "u3", "u4", "u5", "u6", "u7", "u8" >>
uuid4(n) == Uuids[n]

\* the arguments of an add_to_index call for the rows given: their texts,
\* and their metadata records with or without a chunk_id
TextsOf(rows) == [n \in 1..Len(rows) |-> Rows[rows[n]].content]
MetadataOf(rows, with_ids) ==
  [n \in 1..Len(rows) |->
     IF with_ids THEN MetaOf(rows[n])
     ELSE [MetaOf(rows[n]) EXCEPT !.chunk_id = Absent]]

\* lines 272-285: the embeddings of the batches whose call succeeded;
\* ok[b] tells whether the embeddings.create call of batch b succeeds
RECURSIVE BatchEmbeddings(_, _, _, _)
BatchEmbeddings(texts, batch_size, ok, b) ==
  IF (b - 1) * batch_size >= Len(texts) THEN << >>
  ELSE LET batch_texts == SubSeq(texts, (b - 1) * batch_size + 1,
                                 Min(b * batch_size, Len(texts)))
       IN (IF ok[b] THEN batch_texts ELSE << >>)
          \o BatchEmbeddings(texts, batch_size, ok, b + 1)

\* range(0, len(texts), batch_size): the number of batches
Batches(n, batch_size) == (n + batch_size - 1) \div batch_size

\* lines 298-300: the metadata appended, a missing chunk_id generated
RECURSIVE AppendMetadata(_, _)
AppendMetadata(ms, metadata) ==
  IF metadata = << >> THEN ms
  ELSE LET meta == Head(metadata)
           filled == IF meta.chunk_id = Absent
                       THEN [meta EXCEPT !.chunk_id = uuid4(Len(ms) + 1)]
                       ELSE meta
       IN AppendMetadata(Append(ms, filled), Tail(metadata))

\* what _save_index leaves on disk for the index idx and the metadata ms.
\* write: "ok", "index_fails" (faiss.write_index raises; both files stay)
\* or "metas_fails" (the index file is written, metas.jsonl cannot be
\* opened and stays); writing the index None raises as well; the exception
\* is caught
_save_index(idx, ms, write) ==
  LET index_fails == write = "index_fails" \/ idx = NoIndex
  IN [faiss_file |-> IF index_fails THEN faiss_file
                     ELSE [state |-> "ok", d |-> idx.d, vecs |-> idx.vecs],
      metas_file |-> IF write = "ok" /\ ~index_fails
                       THEN [state |-> "ok",
                             recs |-> [n \in 1..Len(ms) |-> JsonLine(ms[n])]]
                       ELSE metas_file]

\* the state an operation leaves: [status, index, metas, faiss_file, metas_file]
Unchanged(status) ==
  [status |-> status, index |-> index, metas |-> metas,
   faiss_file |-> faiss_file, metas_file |-> metas_file]

\* add_to_index after the guard of line 265 (lines 269-304)
AddOutcome(texts, metadata, batch_size, ok, write) ==
  LET all_embeddings == BatchEmbeddings(texts, batch_size, ok, 1)
  IN IF all_embeddings = << >> THEN Unchanged("returned")
     ELSE IF index = NoIndex THEN Unchanged("AttributeError")
     ELSE IF index.d # RemoteDimension THEN Unchanged("AssertionError")
     ELSE LET idx == [index EXCEPT !.vecs = index.vecs \o all_embeddings]
              ms == AppendMetadata(metas, metadata)
              files == _save_index(idx, ms, write)
          IN [status |-> "returned", index |-> idx, metas |-> ms,
              faiss_file |-> files.faiss_file, metas_file |-> files.metas_file]

\* variant of add_to_index: no guard, every provider's vectors are added
add_to_index_unguarded(texts, metadata, batch_size, ok, write) ==
  AddOutcome(texts, metadata, batch_size, ok, write)

\* add_to_index
add_to_index(texts, metadata, batch_size, ok, write) ==
  IF embedding_client = "none" THEN Unchanged("returned")
  ELSE AddOutcome(texts, metadata, batch_size, ok, write)

\* lines 78-85 and 323-327: the index and the metadata read from the files
ReadIndex(ff) == [d |-> ff.d, vecs |-> ff.vecs]
ReadMetas(mf) == [n \in 1..Len(mf.recs) |-> JsonParse(mf.recs[n])]

\* build_main(data_dir) of ai_system.build_index: the files of a full
\* re-embed of the documents docs, with vectors of dimension d
build_main(docs, d) ==
  [faiss_file |-> [state |-> "ok", d |-> d, vecs |-> TextsOf(docs)],
   metas_file |-> [state |-> "ok",
                   recs |-> [n \in 1..Len(docs) |-> JsonLine(MetaOf(docs[n]))]]]

\* variant of rebuild_index: the index is reloaded, self.metas is not
rebuild_index_stale_metas(built_ok, docs, d) ==
  IF ~built_ok THEN Unchanged("BuildError")
  ELSE LET built == build_main(docs, d)
       IN [status |-> "returned", index |-> ReadIndex(built.faiss_file),
           metas |-> metas,
           faiss_file |-> built.faiss_file, metas_file |-> built.metas_file]

\* rebuild_index; built_ok: build_main returns (it raises otherwise)
rebuild_index(built_ok, docs, d) ==
  IF ~built_ok THEN Unchanged("BuildError")
  ELSE LET built == build_main(docs, d)
       IN [status |-> "returned", index |-> ReadIndex(built.faiss_file),
           metas |-> ReadMetas(built.metas_file),
           faiss_file |-> built.faiss_file, metas_file |-> built.metas_file]

\* the chunk ids of a result list, in its order
ChunkIdsOf(s) == [n \in 1..Len(s) |-> s[n].chunk_id]

\* the chunk ids search_vectors(q, k) returns, for every query and k
ResultsTable ==
  [q \in Queries, k \in 1..MaxK |->
     ChunkIdsOf(search_vectors(q, k, DefaultThreshold, TRUE).value)]

(* --------------------------- LocalEmbeddings --------------------------- *)
\* json.dump and json.load of a metadata record: a JSON object is the set
\* of its key/value pairs
JsonDump(m) == { << key, m[key] >> : key \in DOMAIN m }
JsonLoad(obj) ==
  [key \in { pair[1] : pair \in obj } |->
     (CHOOSE pair \in obj : pair[1] = key)[2]]

\* a LocalEmbeddings object: [index, metadata]; index NoIndex is None
NoLocal == [index |-> NoIndex, metadata |-> << >>]

\* create_index(embeddings, metadata), for at least one embedding of the
\* model's dimension
create_index(vecs, metadata) ==
  [index |-> [d |-> LocalDimension, vecs |-> vecs],
   metadata |-> IF metadata # << >> THEN metadata
                ELSE [n \in 1..Len(vecs) |-> [id |-> n - 1]]]

\* save_index(index_path, metadata_path): the files written; with_metadata
\* tells whether metadata_path is given
save_index(le, with_metadata) ==
  [index_file |-> [state |-> "ok", d |-> le.index.d, vecs |-> le.index.vecs],
   metadata_file |-> IF with_metadata
                       THEN [state |-> "ok",
                             recs |-> [n \in 1..Len(le.metadata) |->
                                         JsonDump(le.metadata[n])]]
                       ELSE [state |-> "missing", recs |-> << >>]]

\* variant of load_index: the metadata file is never read
load_index_dummy(index_file, metadata_file) ==
  [index |-> ReadIndex(index_file),
   metadata |-> [n \in 1..Len(index_file.vecs) |-> [id |-> n - 1]]]

\* load_index(index_path, metadata_path)
load_index(index_file, metadata_file) ==
  [index |-> ReadIndex(index_file),
   metadata |-> IF metadata_file.state = "ok"
                  THEN [n \in 1..Len(metadata_file.recs) |->
                          JsonLoad(metadata_file.recs[n])]
                ELSE [n \in 1..Len(index_file.vecs) |-> [id |-> n - 1]]]

\* LocalEmbeddings.search(query_embedding, k, threshold):
\* [status, k, indices, results].  k0_raises: whether this build's faiss
\* rejects a search for 0 neighbours
search(le, qv, k, threshold, k0_raises) ==
  LET none == [status |-> "ok", k |-> 0, indices |-> << >>, results |-> << >>]
  IN IF le.index = NoIndex THEN [none EXCEPT !.status = "ValueError"]
     ELSE LET ntotal == Len(le.index.vecs)
              kk == Min(k, ntotal)
              all == [i \in 1..ntotal |->
                        [score |-> InnerProduct(qv, le.index.vecs[i]), i |-> i]]
              hits == Take(StableSortDesc(all, [i \in 1..ntotal |-> all[i].score]), kk)
              kept == SelectSeq(hits, LAMBDA h : h.score >= threshold)
          IN IF kk = 0 /\ k0_raises THEN [none EXCEPT !.status = "AssertionError"]
             ELSE IF le.index.d # LocalDimension
               THEN [none EXCEPT !.status = "AssertionError", !.k = kk]
             ELSE IF \E n \in 1..Len(kept) : kept[n].i > Len(le.metadata)
               THEN [none EXCEPT !.status = "IndexError", !.k = kk]
             ELSE [status |-> "ok", k |-> kk,
                   indices |-> [n \in 1..Len(kept) |-> kept[n].i],
                   results |-> [n \in 1..Len(kept) |-> le.metadata[kept[n].i]]]

(* ------------------- the index under administration -------------------- *)
\* a retriever constructed over an index built from the first n rows of the
\* document store, with either dimension; its provider is a remote client,
\* the local model or none
InitIndex ==
  /\ \E n \in 0..MaxIndex, d \in Dims :
       LET built == build_main([i \in 1..n |-> i], d)
       IN /\ faiss_file = built.faiss_file
          /\ metas_file = built.metas_file
          /\ index = ReadIndex(built.faiss_file)
          /\ metas = ReadMetas(built.metas_file)
  /\ db = "ok"
  /\ ctor = "ok"
  /\ \E client \in {"none", "azure"}, local \in BOOLEAN :
       /\ local => client = "none"
       /\ embedding_client = client
       /\ local_embedder = local
  /\ call = NoCall
  /\ writer = NoWriter
  /\ auth = NoAuth
  /\ limiter = NoLimiter

\* the outcomes of the two file writes of _save_index
Writes == {"ok", "index_fails", "metas_fails"}

\* what an administrative call finds: memory and files before it
Before ==
  [index |-> index, metas |-> metas,
   faiss_file |-> faiss_file, metas_file |-> metas_file]

\* add_to_index(texts, metadata, batch_size) for the next m rows of the
\* document store, in batches of at most m texts
AddToIndex ==
  /\ ctor = "ok"
  /\ call = NoCall
  /\ \E m \in 1..MaxIndex, with_ids \in BOOLEAN, batch_size \in 1..MaxIndex,
        write \in Writes :
       /\ Len(metas) + m <= MaxIndex
       /\ Len(index.vecs) + m <= MaxIndex
       /\ batch_size <= m
       /\ LET rows == [i \in 1..m |-> Len(metas) + i] IN
          \E ok \in [1..Batches(m, batch_size) -> BOOLEAN] :
            LET r == add_to_index(TextsOf(rows), MetadataOf(rows, with_ids),
                                  batch_size, ok, write)
            IN /\ index' = r.index
               /\ metas' = r.metas
               /\ faiss_file' = r.faiss_file
               /\ metas_file' = r.metas_file
               /\ call' = [op |-> "add_to_index", rows |-> rows,
                           with_ids |-> with_ids, batch_size |-> batch_size,
                           ok |-> ok, write |-> write, status |-> r.status,
                           before |-> Before]
  /\ UNCHANGED << db, ctor, embedding_client, local_embedder, writer, auth, limiter >>

\* a direct call of _save_index()
SaveIndex ==
  /\ ctor = "ok"
  /\ call = NoCall
  /\ \E write \in Writes :
       LET files == _save_index(index, metas, write)
       IN /\ faiss_file' = files.faiss_file
          /\ metas_file' = files.metas_file
          /\ call' = [op |-> "_save_index", write |-> write]
  /\ UNCHANGED << db, ctor, embedding_client, local_embedder, index, metas,
                  writer, auth, limiter >>

\* after _save_index, a fresh instance is constructed over the files, with
\* the same configuration; it takes the place of the original one, whose
\* search results are kept for comparison
Load ==
  /\ ctor = "ok"
  /\ call.op = "_save_index"
  /\ faiss_file.state = "ok"
  /\ index' = ReadIndex(faiss_file)
  /\ metas' = IF metas_file.state = "ok" THEN ReadMetas(metas_file) ELSE << >>
  /\ call' = [op |-> "load", write |-> call.write, original |-> ResultsTable]
  /\ UNCHANGED << faiss_file, metas_file, db, ctor, embedding_client,
                  local_embedder, writer, auth, limiter >>

\* rebuild_index(data_dir), data_dir holding the first n rows
RebuildIndex ==
  /\ ctor = "ok"
  /\ call = NoCall
  /\ \E built_ok \in BOOLEAN, n \in 0..MaxIndex, d \in Dims :
       LET docs == [i \in 1..n |-> i]
           r == rebuild_index(built_ok, docs, d)
       IN /\ index' = r.index
          /\ metas' = r.metas
          /\ faiss_file' = r.faiss_file
          /\ metas_file' = r.metas_file
          /\ call' = [op |-> "rebuild_index", status |-> r.status,
                      built |-> build_main(docs, d), before |-> Before]
  /\ UNCHANGED << db, ctor, embedding_client, local_embedder, writer, auth, limiter >>

\* a search on a LocalEmbeddings object: a new one (no index), one whose
\* index was created from the retriever's vectors and metadata, one that
\* loaded what the latter saved (with or without a metadata path), or one
\* that loaded the retriever's index file
LocalSearch ==
  /\ ctor = "ok"
  /\ call = NoCall
  /\ \E object \in {"new", "created", "loaded", "file"},
        with_metadata \in BOOLEAN, query \in Queries, k \in 1..MaxK,
        threshold \in {0, DefaultThreshold}, k0_raises \in BOOLEAN :
       LET created == create_index(index.vecs, metas)
           files == save_index(created, with_metadata)
           le == CASE object = "new" -> NoLocal
                   [] object = "created" -> created
                   [] object = "loaded" ->
                        load_index(files.index_file, files.metadata_file)
                   [] object = "file" ->
                        load_index(faiss_file, [state |-> "missing", recs |-> << >>])
           r == search(le, query.words, k, threshold, k0_raises)
       IN /\ object \in {"created", "loaded"} =>
               index.vecs # << >> /\ index.d = LocalDimension
          /\ object # "loaded" => with_metadata
          /\ k0_raises => object = "file" /\ faiss_file.vecs = << >>
          /\ call' = [op |-> "local_search", object |-> object,
                      with_metadata |-> with_metadata, query |-> query,
                      k |-> k, threshold |-> threshold,
                      ntotal |-> Len(le.index.vecs),
                      status |-> r.status, indices |-> r.indices,
                      results |-> r.results,
                      original |-> IF object = "loaded"
                                     THEN search(created, query.words, k,
                                                 threshold, k0_raises)
                                     ELSE r]
  /\ UNCHANGED << faiss_file, metas_file, db, ctor, embedding_client,
                  local_embedder, index, metas, writer, auth, limiter >>

NextIndex ==
  AddToIndex \/ SaveIndex \/ Load \/ RebuildIndex \/ LocalSearch \/ Return

SpecIndex == InitIndex /\ [][NextIndex]_vars

\* searches over the index as constructed
NextLocal == LocalSearch \/ SearchVectors \/ Return

SpecLocal == InitIndex /\ [][NextLocal]_vars

(* ------------------------- concurrent requests ------------------------- *)
\* The application serves each request in a thread of its own and the
\* retriever holds no lock: one thread runs add_to_index statement by
\* statement (its embeddings and its file writes succeed) while another
\* runs searches.

\* lines 265-288: the guard passes and the embeddings are computed
WriterBegin ==
  /\ ctor = "ok"
  /\ writer = NoWriter
  /\ embedding_client # "none"
  /\ index.d = RemoteDimension
  /\ \E m \in 1..MaxIndex, with_ids \in BOOLEAN :
       /\ Len(metas) + m <= MaxIndex
       /\ Len(index.vecs) + m <= MaxIndex
       /\ LET rows == [i \in 1..m |-> Len(metas) + i]
          IN writer' = [pc |-> "embedded",
                        embeddings |-> BatchEmbeddings(TextsOf(rows), m,
                                                       [b \in {1} |-> TRUE], 1),
                        metadata |-> MetadataOf(rows, with_ids)]
  /\ UNCHANGED << faiss_file, metas_file, db, ctor, embedding_client,
                  local_embedder, index, metas, call, auth, limiter >>

\* line 295: self.index.add(embeddings_array)
WriterIndexAdd ==
  /\ writer.pc = "embedded"
  /\ index' = [index EXCEPT !.vecs = index.vecs \o writer.embeddings]
  /\ writer' = [writer EXCEPT !.pc = "appending"]
  /\ UNCHANGED << faiss_file, metas_file, db, ctor, embedding_client,
                  local_embedder, metas, call, auth, limiter >>

\* lines 298-300: one turn of the loop over metadata
WriterAppendMeta ==
  /\ writer.pc = "appending"
  /\ writer.metadata # << >>
  /\ metas' = AppendMetadata(metas, << Head(writer.metadata) >>)
  /\ writer' = [writer EXCEPT !.metadata = Tail(writer.metadata)]
  /\ UNCHANGED << faiss_file, metas_file, db, ctor, embedding_client,
                  local_embedder, index, call, auth, limiter >>

\* line 309: faiss.write_index(self.index, self.faiss_path)
WriterSaveIndex ==
  /\ writer.pc = "appending"
  /\ writer.metadata = << >>
  /\ faiss_file' = _save_index(index, metas, "metas_fails").faiss_file
  /\ writer' = [pc |-> "saving"]
  /\ UNCHANGED << metas_file, db, ctor, embedding_client, local_embedder,
                  index, metas, call, auth, limiter >>

\* lines 310-313: metas.jsonl written; add_to_index returns
WriterSaveMetas ==
  /\ writer.pc = "saving"
  /\ metas_file' = _save_index(index, metas, "ok").metas_file
  /\ writer' = NoWriter
  /\ UNCHANGED << faiss_file, db, ctor, embedding_client, local_embedder,
                  index, metas, call, auth, limiter >>

\* search_vectors in another thread, whatever the writer is doing; the
\* sizes it finds are kept with its result
ConcurrentSearch ==
  /\ ctor = "ok"
  /\ call = NoCall
  /\ \E query \in Queries, k \in 1..MaxK :
       LET v == search_vectors(query, k, DefaultThreshold, TRUE)
       IN call' = [op |-> "search_vectors", query |-> query, k_vec |-> k,
                   vec_status |-> v.status, vec |-> v.value,
                   writer |-> writer.pc,
                   ntotal |-> Len(index.vecs), metas |-> Len(metas)]
  /\ UNCHANGED << faiss_file, metas_file, db, ctor, embedding_client,
                  local_embedder, index, metas, writer, auth, limiter >>

NextConc ==
  \/ WriterBegin \/ WriterIndexAdd \/ WriterAppendMeta \/ WriterSaveIndex
  \/ WriterSaveMetas \/ ConcurrentSearch \/ Return

SpecConc == InitIndex /\ [][NextConc]_vars

(* ------------------------- a request over time -------------------------- *)
\* whether search_vectors reaches the provider's embedding call (lines
\* 105-125: a provider exists and the dimension guard passes)
EmbedCalled ==
  search_vectors([words |-> {}, fts_ok |-> TRUE], 1, DefaultThreshold, TRUE).embed
    # "not_called"

\* hybrid is entered and, when a provider is to be called, waits in its
\* embedding call.  embedding: "ok", "fails" (the call raises), "hangs" (the
\* local model's inference never completes; encode_query is called without
\* any timer) or "not_called".  Nothing else runs meanwhile, so what the
\* call will produce once the embedding completes is fixed at entry and
\* kept in status, result and lex
HybridBegin ==
  /\ ctor = "ok"
  /\ call = NoCall
  /\ \E query \in Queries, final_k \in 1..MaxK,
        embedding \in {"ok", "fails", "hangs", "not_called"} :
       /\ embedding = "not_called" <=> ~EmbedCalled
       /\ embedding = "hangs" => local_embedder
       /\ LET r == hybrid(query, MaxK, MaxK, final_k, DefaultThreshold,
                          embedding # "fails")
          IN call' = [op |-> "hybrid", pc |-> "embedding", query |-> query,
                      final_k |-> final_k, embedding |-> embedding,
                      status |-> r.status, result |-> r.result, lex |-> r.lex]
  /\ UNCHANGED << faiss_file, metas_file, db, ctor, embedding_client,
                  local_embedder, index, metas, writer, auth, limiter >>

\* the embedding call completes and hybrid runs to its end; nothing in
\* embed or hybrid abandons a call that does not complete
HybridEnd ==
  /\ call.op = "hybrid" /\ call.pc = "embedding"
  /\ call.embedding # "hangs"
  /\ call' = [call EXCEPT !.pc = "done"]
  /\ UNCHANGED << faiss_file, metas_file, db, ctor, embedding_client,
                  local_embedder, index, metas, writer, auth, limiter >>

\* the caller takes the outcome of a finished call
ReturnDone ==
  /\ call.op = "hybrid" /\ call.pc = "done"
  /\ call' = NoCall
  /\ UNCHANGED << faiss_file, metas_file, db, ctor, embedding_client,
                  local_embedder, index, metas, writer, auth, limiter >>

NextLive == HybridBegin \/ HybridEnd \/ ReturnDone

\* a call whose embedding has completed runs on, and a finished call is
\* handed to its caller; requests need not keep arriving
SpecLive ==
  /\ InitIndex /\ [][NextLive]_vars
  /\ WF_vars(HybridEnd) /\ WF_vars(ReturnDone)

(* ------------------------- provider selection -------------------------- *)
\* lines 33-75: the provider __init__ settles on.  cfg holds the
\* configuration and what each provider's set-up does:
\*   deployment     AZURE_OPENAI_EMBEDDING_DEPLOYMENT is set
\*   azure_probe    the test embeddings.create call on the Azure client succeeds
\*   openai_key     OPENAI_API_KEY is set and is no placeholder
\*   openai_made    OpenAI(api_key=...) succeeds
\*   openai_probe   an embeddings.create call on that client would succeed
\*   local_loaded   LocalEmbeddings() succeeds
SelectProvider(cfg) ==
  LET azure_success == cfg.deployment /\ cfg.azure_probe
      client == IF azure_success THEN "azure"
                ELSE IF cfg.openai_key /\ cfg.openai_made THEN "openai"
                ELSE "none"
  IN [embedding_client |-> client,
      local_embedder |-> client = "none" /\ cfg.local_loaded]

Configs ==
  [deployment : BOOLEAN, azure_probe : BOOLEAN, openai_key : BOOLEAN,
   openai_made : BOOLEAN, openai_probe : BOOLEAN, local_loaded : BOOLEAN]

\* HybridRetriever.__init__ with valid Azure chat credentials, the
\* configuration kept with the outcome
ConstructWith ==
  /\ ctor = "new"
  /\ \E cfg \in Configs :
       LET p == SelectProvider(cfg)
       IN /\ cfg.openai_probe => cfg.openai_made
          /\ IF faiss_file.state # "ok"
               THEN /\ ctor' = "IndexReadError"
                    /\ UNCHANGED << embedding_client, local_embedder, index, metas >>
               ELSE /\ ctor' = "ok"
                    /\ embedding_client' = p.embedding_client
                    /\ local_embedder' = p.local_embedder
                    /\ index' = ReadIndex(faiss_file)
                    /\ metas' = IF metas_file.state = "ok"
                                  THEN ReadMetas(metas_file) ELSE << >>
          /\ call' = [op |-> "__init__", cfg |-> cfg]
  /\ UNCHANGED << faiss_file, metas_file, db, writer, auth, limiter >>

NextCtor == ConstructWith

SpecCtor == Init /\ [][NextCtor]_vars

(* ------------------- requests over a growing index --------------------- *)
\* hybrid requests between add_to_index calls
NextGrow == AddToIndex \/ Hybrid \/ Return

SpecGrow == InitIndex /\ [][NextGrow]_vars

(* ------------------------------ SimpleAuth ----------------------------- *)
\* user names and passwords: 'admin' is one of the users __init__ writes
\* into self.local_users, 'nuevo' is not
Users == {"admin", "nuevo"}
Passwords == {"123", "nueva"}

\* os.urandom(16)
Salts == {"s1", "s2"}

\* hashlib.pbkdf2_hmac: a digest that two (password, salt) pairs share only
\* when they are equal
pbkdf2_hmac(password, salt) == << "sha256", password, salt >>

_hash_password(password, salt) ==
  [salt |-> salt, password_hash |-> pbkdf2_hmac(password, salt)]

_verify_password(password, salt, hash_hex) ==
  pbkdf2_hmac(password, salt) = hash_hex

\* no row of the table users for a name: what get_user_by_username returns
\* as None
NoRow == [exists |-> FALSE]

\* the dictionary __init__ starts self.local_users with
DefaultLocalUsers == [u \in Users |-> IF u = "admin" THEN "123" ELSE Absent]

\* _sync_passwords_from_database: every row of the SQL Server table Users
\* overwrites or extends self.local_users; nothing when there is no
\* connection
_sync_passwords_from_database(local_users, sql_users, connects) ==
  IF ~connects THEN local_users
  ELSE [u \in Users |-> IF sql_users[u] # Absent THEN sql_users[u]
                        ELSE local_users[u]]

\* the state of the retriever while the login pages are served
RetrieverAside ==
  /\ faiss_file = [state |-> "missing", d |-> LocalDimension, vecs |-> << >>]
  /\ metas_file = [state |-> "missing", recs |-> << >>]
  /\ db = "ok"
  /\ ctor = "new"
  /\ embedding_client = "none"
  /\ local_embedder = FALSE
  /\ index = NoIndex
  /\ metas = << >>
  /\ call = NoCall
  /\ writer = NoWriter

\* SimpleAuth(): an empty table users in Usuarios.db, any table Users in
\* SQL Server, and self.local_users after the synchronisation.
\* changed[u] is the password of the last update_password that succeeded
\* for u
InitAuth ==
  /\ RetrieverAside
  /\ \E sql_users \in [Users -> Passwords \cup {Absent}], connects \in BOOLEAN :
       auth = [made |-> TRUE,
               users |-> [u \in Users |-> NoRow],
               sql_users |-> sql_users,
               local_users |-> _sync_passwords_from_database(
                                 DefaultLocalUsers, sql_users, connects),
               changed |-> [u \in Users |-> Absent]]
  /\ limiter = NoLimiter

\* create_user: a new row of users, refused when the name is taken
create_user(a, username, password, salt) ==
  IF a.users[username].exists
    THEN [auth |-> a, success |-> FALSE]
    ELSE [auth |-> [a EXCEPT !.users[username] =
                      _hash_password(password, salt)
                        @@ [exists |-> TRUE, is_active |-> TRUE]],
          success |-> TRUE]

\* update_password: the row of users gets a new salt and hash; True when a
\* row was updated, False when there is none or the database raised
update_password(a, username, new_password, salt, raises) ==
  IF raises \/ ~a.users[username].exists
    THEN [auth |-> a, success |-> FALSE]
    ELSE [auth |-> [a EXCEPT
                      !.users[username] =
                        _hash_password(new_password, salt)
                          @@ [exists |-> TRUE,
                              is_active |-> a.users[username].is_active],
                      !.changed[username] = new_password],
          success |-> TRUE]

_authenticate_local(a, username, password) ==
  IF a.local_users[username] # Absent /\ a.local_users[username] = password
    THEN [success |-> TRUE, auth_method |-> "local"]
    ELSE [success |-> FALSE, auth_method |-> "none"]

\* authenticate: Usuarios.db, then SQL Server when it connects, then
\* self.local_users; a wrong password in one store falls through to the next
authenticate(a, username, password, connects) ==
  LET user == a.users[username]
  IN IF user.exists /\ ~user.is_active
       THEN [success |-> FALSE, auth_method |-> "none"]
     ELSE IF user.exists
             /\ _verify_password(password, user.salt, user.password_hash)
       THEN [success |-> TRUE, auth_method |-> "sqlite"]
     ELSE IF connects /\ a.sql_users[username] # Absent
             /\ a.sql_users[username] = password
       THEN [success |-> TRUE, auth_method |-> "sql_server"]
     ELSE _authenticate_local(a, username, password)

CreateUser ==
  /\ call = NoCall
  /\ \E username \in Users, password \in Passwords, salt \in Salts :
       LET r == create_user(auth, username, password, salt)
       IN /\ auth' = r.auth
          /\ call' = [op |-> "create_user", username |-> username,
                      password |-> password, success |-> r.success]
  /\ UNCHANGED << faiss_file, metas_file, db, ctor, embedding_client,
                  local_embedder, index, metas, writer, limiter >>

UpdatePassword ==
  /\ call = NoCall
  /\ \E username \in Users, new_password \in Passwords, salt \in Salts,
        raises \in BOOLEAN :
       LET r == update_password(auth, username, new_password, salt, raises)
       IN /\ auth' = r.auth
          /\ call' = [op |-> "update_password", username |-> username,
                      password |-> new_password, success |-> r.success]
  /\ UNCHANGED << faiss_file, metas_file, db, ctor, embedding_client,
                  local_embedder, index, metas, writer, limiter >>

Authenticate ==
  /\ call = NoCall
  /\ \E username \in Users, password \in Passwords, connects \in BOOLEAN :
       LET r == authenticate(auth, username, password, connects)
       IN call' = [op |-> "authenticate", username |-> username,
                   password |-> password, success |-> r.success,
                   auth_method |-> r.auth_method]
  /\ UNCHANGED << faiss_file, metas_file, db, ctor, embedding_client,
                  local_embedder, index, metas, writer, auth, limiter >>

NextAuth == CreateUser \/ UpdatePassword \/ Authenticate \/ Return

SpecAuth == InitAuth /\ [][NextAuth]_vars

(* ----------------------------- RateLimiter ----------------------------- *)
\* RateLimiter(max_requests, window_seconds, max_ips) and the cleanup period
\* written into is_allowed, scaled down together: the window is shorter
\* than the cleanup period, as 60 s is shorter than 300 s
max_requests == 2
window_seconds == 2
max_ips == 1
CleanupInterval == 3

\* time.time() in whole seconds since the limiter was made, up to MaxClock
MaxClock == 4

\* the requests that arrive in a run
MaxCalls == 5

\* the threads serving requests, and the client addresses they serve
Threads == {"t1", "t2"}
Identifiers == {"a", "b"}

\* self.requests is a dictionary in insertion order: a sequence of entries
\* [ip, times]
Keys(requests) == { requests[n].ip : n \in 1..Len(requests) }

\* self.requests[identifier], [] for a new key
TimesOf(requests, identifier) ==
  IF identifier \in Keys(requests)
    THEN requests[CHOOSE n \in 1..Len(requests) :
                    requests[n].ip = identifier].times
    ELSE << >>

\* self.requests[identifier] = times: in place, or a new last key
SetTimes(requests, identifier, times) ==
  IF identifier \in Keys(requests)
    THEN [n \in 1..Len(requests) |->
            IF requests[n].ip = identifier
              THEN [ip |-> identifier, times |-> times]
              ELSE requests[n]]
    ELSE Append(requests, [ip |-> identifier, times |-> times])

\* [req_time for req_time in times if now - req_time < self.window_seconds]
Recent(times, now) == SelectSeq(times, LAMBDA req_time :
                                         now - req_time < window_seconds)

\* max(times) if times else 0
MaxOf(times) ==
  IF times = << >> THEN 0
  ELSE CHOOSE m \in { times[n] : n \in 1..Len(times) } :
         \A n \in 1..Len(times) : times[n] <= m

\* cleanup_old_requests: old timestamps go, keys left empty go, and of more
\* than max_ips keys only the max_ips with the latest request stay
cleanup_old_requests(requests, now) ==
  LET filtered == [n \in 1..Len(requests) |->
                     [ip |-> requests[n].ip,
                      times |-> Recent(requests[n].times, now)]]
      kept == SelectSeq(filtered, LAMBDA e : e.times # << >>)
  IN IF Len(kept) > max_ips
       THEN Take(StableSortDesc(kept, [n \in 1..Len(kept) |->
                                         MaxOf(kept[n].times)]),
                 max_ips)
       ELSE kept

\* the body of is_allowed under self._lock, with the now read before it
is_allowed(l, identifier, now) ==
  LET clean == now - l.last_cleanup > CleanupInterval
      requests == IF clean THEN cleanup_old_requests(l.requests, now)
                  ELSE l.requests
      last_cleanup == IF clean THEN now ELSE l.last_cleanup
      times == Recent(TimesOf(requests, identifier), now)
  IN IF Len(times) >= max_requests
       THEN [requests |-> SetTimes(requests, identifier, times),
             last_cleanup |-> last_cleanup, allowed |-> FALSE]
       ELSE [requests |-> SetTimes(requests, identifier, Append(times, now)),
             last_cleanup |-> last_cleanup, allowed |-> TRUE]

NoRequest == [pc |-> "idle"]

\* RateLimiter(...) at time 0. calls counts the calls made, and
\* granted[ip][t] those for ip that returned True with timestamp t
InitLimiter ==
  /\ RetrieverAside
  /\ auth = NoAuth
  /\ limiter = [made |-> TRUE,
                clock |-> 0,
                calls |-> 0,
                requests |-> << >>,
                last_cleanup |-> 0,
                threads |-> [t \in Threads |-> NoRequest],
                granted |-> [ip \in Identifiers |->
                               [t \in 0..MaxClock |-> 0]]]

\* a second passes
Tick ==
  /\ limiter.clock < MaxClock
  /\ limiter' = [limiter EXCEPT !.clock = @ + 1]
  /\ UNCHANGED << faiss_file, metas_file, db, ctor, embedding_client,
                  local_embedder, index, metas, call, writer, auth >>

\* is_allowed up to the lock: now = time.time()
Arrive ==
  /\ \E t \in Threads, identifier \in Identifiers :
       /\ limiter.threads[t] = NoRequest
       /\ limiter.calls < MaxCalls
       /\ limiter' = [limiter EXCEPT
                        !.calls = @ + 1,
                        !.threads[t] =
                          [pc |-> "at_lock", identifier |-> identifier,
                           now |-> limiter.clock]]
  /\ UNCHANGED << faiss_file, metas_file, db, ctor, embedding_client,
                  local_embedder, index, metas, call, writer, auth >>

\* is_allowed from taking the lock to the return
Enter ==
  /\ \E t \in Threads :
       /\ limiter.threads[t].pc = "at_lock"
       /\ LET identifier == limiter.threads[t].identifier
              now == limiter.threads[t].now
              r == is_allowed(limiter, identifier, now)
          IN limiter' = [limiter EXCEPT
                           !.requests = r.requests,
                           !.last_cleanup = r.last_cleanup,
                           !.threads[t] = NoRequest,
                           !.granted[identifier][now] =
                             IF r.allowed THEN @ + 1 ELSE @]
  /\ UNCHANGED << faiss_file, metas_file, db, ctor, embedding_client,
                  local_embedder, index, metas, call, writer, auth >>

NextLimiter == Tick \/ Arrive \/ Enter

SpecLimiter == InitLimiter /\ [][NextLimiter]_vars

(* ------------------------------- claims -------------------------------- *)
IsHybrid == call.op = "hybrid"
IsSearch == call.op \in {"hybrid", "search_vectors"}
Returned == IsHybrid /\ call.status = "returned"
NullProvider == ctor = "ok" /\ embedding_client = "none" /\ ~local_embedder
ChunkIds(s) == { s[n].chunk_id : n \in 1..Len(s) }
AllOfType(s, type) == \A n \in 1..Len(s) : s[n].search_type = type

\* C1: the list hybrid returns has at most final_k entries, for every
\* final_k >= 0
C1_BoundedOutput == Returned => Len(call.result) <= call.final_k

\* C1 witness: the fused list was longer than final_k and was cut to final_k
C1_Witness ==
  /\ Returned
  /\ call.final_k >= 1
  /\ Len(call.fused) > call.final_k
  /\ Len(call.result) = call.final_k

\* C2: the list hybrid returns holds no chunk_id twice, also when the index
\* holds a chunk_id twice and when both searches return the same chunk
C2_NoDuplicates ==
  Returned => \A i, j \in 1..Len(call.result) :
                i # j => call.result[i].chunk_id # call.result[j].chunk_id

\* C2 witness: the vector search returned one chunk_id twice, the lexical
\* search returned a chunk the vector search returned, two entries came back
C2_Witness ==
  /\ Returned
  /\ Len(call.result) >= 2
  /\ \E i, j \in 1..Len(call.vec) : i < j /\ call.vec[i].chunk_id = call.vec[j].chunk_id
  /\ ChunkIds(call.vec) \cap ChunkIds(call.lex) # {}

\* C3: with the index file missing or corrupt the retriever is still
\* constructed (given valid credentials), and every hybrid call returns, with
\* no semantic candidates and lexical entries only
C3_MissingIndexDegrades ==
  (faiss_file.state # "ok" /\ ctor \notin {"new", "ValueError"}) =>
    /\ ctor = "ok"
    /\ IsHybrid => /\ call.status = "returned"
                   /\ call.vec = << >>
                   /\ AllOfType(call.result, "lexical")

\* C4: a hybrid call whose embedding call fails does not raise; it has no
\* semantic candidates and returns the lexical ones
C4_EmbedFailureDegrades ==
  (IsHybrid /\ call.embed = "failed") =>
    /\ call.status = "returned"
    /\ call.vec = << >>
    /\ call.lex_status = "ok"
    /\ AllOfType(call.result, "lexical")

\* C5: a hybrid call whose lexical search fails (malformed query, missing
\* table, database that cannot be opened) does not raise; it has no lexical
\* candidates and returns the semantic ones alone
C5_LexicalFailureDegrades ==
  (IsHybrid /\ call.lex_error # "none") =>
    /\ call.status = "returned"
    /\ call.lex = << >>
    /\ AllOfType(call.result, "semantic")

\* C6: with the Null provider the vector index is never searched and every
\* entry hybrid returns is a lexical one
C6_NullLexicalOnly ==
  (NullProvider /\ IsSearch) =>
    /\ ~call.searched
    /\ call.vec_status = "ok" /\ call.vec = << >>
    /\ Returned => AllOfType(call.result, "lexical")

\* C6 witness: the Null provider over a non-empty index, and hybrid returned
\* entries
C6_Witness ==
  /\ NullProvider
  /\ Len(index.vecs) >= 1 /\ Len(metas) = Len(index.vecs)
  /\ Returned
  /\ Len(call.result) >= 1

\* C7: for final_k >= 1 hybrid returns the empty list only if both candidate
\* lists are empty, and when both are empty it returns the empty list and
\* does not raise
C7_EmptyOnlyIfBothEmpty ==
  IsHybrid =>
    /\ (Returned /\ call.final_k >= 1 /\ call.result = << >>)
         => (call.vec = << >> /\ call.lex = << >>)
    /\ (call.vec_status = "ok" /\ call.lex_status = "ok"
          /\ call.vec = << >> /\ call.lex = << >>)
         => (call.status = "returned" /\ call.result = << >>)

\* C7 witness: the index was searched, nothing passed the threshold, the
\* lexical search found nothing, and hybrid returned the empty list
C7_Witness ==
  /\ Returned
  /\ call.final_k >= 1
  /\ call.searched
  /\ call.vec = << >> /\ call.lex = << >>
  /\ call.result = << >>

\* C8: for every provider (remote A, remote B, local), when the dimension
\* of the loaded index differs from the provider's, search_vectors returns
\* the empty list, does not raise and does not call the native index search
\* (stated for the requests whose embedding call does not fail, which C4
\* is about)
C8_DimensionMismatchGuard ==
  (IsSearch /\ ~NullProvider /\ index.d # ProviderDimension
     /\ call.embed # "failed") =>
    /\ call.vec_status = "ok"
    /\ call.vec = << >>
    /\ ~call.searched

\* C9: every candidate search_vectors returns has score >= similarity_threshold
C9_ThresholdFilter ==
  (IsSearch /\ call.vec_status = "ok") =>
    \A n \in 1..Len(call.vec) : call.vec[n].score >= call.similarity_threshold

\* C9 witness: search_vectors kept a candidate and discarded another that
\* scored below the threshold
C9_Witness ==
  /\ call.op = "search_vectors"
  /\ call.vec_status = "ok"
  /\ call.vec # << >>
  /\ call.below # {}

C11_CredentialsNeverFatal == ctor # "ValueError"

\* C16: loading with the index file present and the metadata file missing
\* does not fail and gives one placeholder metadata record per vector, with
\* sequential ids
C16_PlaceholderMetadata ==
  (ctor \notin {"new", "ValueError"} /\ faiss_file.state = "ok"
     /\ metas_file.state = "missing") =>
    /\ ctor = "ok"
    /\ Len(metas) = Len(index.vecs)
    /\ \A n \in 1..Len(metas) : metas[n] = [id |-> n - 1]


\* the row a metadata record was written for, and alignment of a sequence
\* of vectors with a sequence of metadata records
RowOfMeta(m) ==
  CHOOSE r \in RowIds : Rows[r].fuente = m.doc_id /\ Rows[r].heading = m.heading_path
AlignedWith(vecs, ms) ==
  /\ Len(vecs) = Len(ms)
  /\ \A i \in 1..Len(ms) : vecs[i] = Rows[RowOfMeta(ms[i])].content
IsAdd == call.op = "add_to_index"
AllBatchesOk == \A b \in DOMAIN call.ok : call.ok[b]

\* C12: after load and after any add_to_index, _save_index and rebuild_index
\* calls, whichever batches fail, the index holds as many vectors as there
\* are metadata records and the i-th record is the one supplied with the
\* text of the i-th vector; so do the files after a save that succeeded
C12_Aligned ==
  ctor = "ok" =>
    /\ AlignedWith(index.vecs, metas)
    /\ (call.op \in {"add_to_index", "_save_index"} /\ call.write = "ok"
          /\ metas_file.state = "ok")
         => AlignedWith(faiss_file.vecs, ReadMetas(metas_file))

\* C13: with a provider available (remote client or local model), an
\* add_to_index call of n texts whose embeddings all succeed (the index
\* having the provider's dimension, the files being writable) returns with
\* the n vectors and the n metadata records appended in order, and with both
\* files holding the new index and metadata
C13_AppendsAll ==
  (IsAdd /\ (embedding_client # "none" \/ local_embedder) /\ AllBatchesOk
     /\ call.write = "ok" /\ call.before.index.d = ProviderDimension) =>
    LET n == Len(call.rows)
        old == Len(call.before.metas)
        supplied == MetadataOf(call.rows, call.with_ids)
    IN /\ call.status = "returned"
       /\ index.vecs = call.before.index.vecs \o TextsOf(call.rows)
       /\ Len(metas) = old + n
       /\ SubSeq(metas, 1, old) = call.before.metas
       /\ \A i \in 1..n :
            /\ metas[old + i].doc_id = supplied[i].doc_id
            /\ metas[old + i].heading_path = supplied[i].heading_path
            /\ call.with_ids => metas[old + i].chunk_id = supplied[i].chunk_id
       /\ faiss_file = [state |-> "ok", d |-> index.d, vecs |-> index.vecs]
       /\ metas_file.state = "ok" /\ ReadMetas(metas_file) = metas

\* C14: with no provider (neither a remote client nor the local model),
\* add_to_index returns without an exception and leaves the index, the
\* metadata and both files as they were
C14_NullAddIsNoOp ==
  (IsAdd /\ embedding_client = "none" /\ ~local_embedder) =>
    /\ call.status = "returned"
    /\ Before = call.before
C14_Witness ==
  /\ IsAdd /\ embedding_client = "none" /\ ~local_embedder
  /\ Len(call.rows) = MaxIndex /\ AllBatchesOk /\ call.write = "ok"
  /\ index.d = RemoteDimension

\* C15: after _save_index has written both files, a fresh instance loaded
\* from them returns, for every query and k, the chunk ids the original
\* instance returned, in the same order; so does a LocalEmbeddings object
\* that loaded the index and the metadata another one saved
C15_RoundTrip ==
  /\ (call.op = "load" /\ call.write = "ok") => ResultsTable = call.original
  /\ (call.op = "local_search" /\ call.object = "loaded" /\ call.with_metadata) =>
       /\ call.status = call.original.status
       /\ call.indices = call.original.indices
       /\ call.results = call.original.results
C15_Witness ==
  /\ call.op = "load" /\ call.write = "ok"
  /\ \E q \in Queries : Len(call.original[q, MaxK]) = MaxK

\* C17: a vector search with parameter k (search_vectors whose embedding
\* call succeeds, LocalEmbeddings.search) returns at most min(k, ntotal)
\* results, and returns an empty result without raising when the index is
\* absent or holds no vectors
C17_BoundedAndQuiet ==
  /\ (call.op = "search_vectors" /\ call.embed # "failed") =>
       /\ call.vec_status = "ok" =>
            Len(call.vec) <= Min(call.k_vec, Len(index.vecs))
       /\ index.vecs = << >> => call.vec_status = "ok" /\ call.vec = << >>
  /\ call.op = "local_search" =>
       /\ call.status = "ok" => Len(call.results) <= Min(call.k, call.ntotal)
       /\ call.ntotal = 0 => call.status = "ok" /\ call.results = << >>

\* C18: when rebuild_index returns, the index and the metadata in memory
\* are the ones the rebuild produced, nothing from before the rebuild
\* remains, and both have the same length
C18_RebuildReplaces ==
  (call.op = "rebuild_index" /\ call.status = "returned") =>
    /\ index = ReadIndex(call.built.faiss_file)
    /\ metas = ReadMetas(call.built.metas_file)
    /\ Len(metas) = Len(index.vecs)
C18_Witness ==
  /\ call.op = "rebuild_index" /\ call.status = "returned"
  /\ Len(call.before.metas) > Len(call.before.index.vecs)
  /\ Len(metas) = 1
  /\ index.d # call.before.index.d

\* C19: for every text T in the index (of the provider's dimension), a k=1
\* vector search with T as the query returns one candidate, with similarity
\* at least 0.99, whose chunk_id and metadata are those supplied for T
C19_SelfRetrieval ==
  (ctor = "ok" /\ (embedding_client # "none" \/ local_embedder)
     /\ index.d = ProviderDimension) =>
    \A i \in 1..Len(index.vecs) :
      LET T == index.vecs[i]
          r == search_vectors([words |-> T, fts_ok |-> TRUE], 1,
                              DefaultThreshold, TRUE)
      IN /\ r.status = "ok"
         /\ Len(r.value) = 1
         /\ r.value[1].score >= 99
         /\ Rows[RowOfMeta(r.value[1])].content = T
         /\ IsInt(r.value[1].chunk_id) =>
              Rows[Int_(r.value[1].chunk_id)].content = T

\* C20: add_to_index excludes every concurrently running search: no search
\* runs while add_to_index is between its first and its last write, so a
\* search never finds an index whose vector count differs from its
\* metadata count
C20_NoPartialRead ==
  (call.op = "search_vectors" /\ "writer" \in DOMAIN call) =>
    /\ call.writer \in {"idle", "embedded"}
    /\ call.ntotal = call.metas

\* C21: persisting replaces the index file and the metadata file together:
\* after a save of an index that has as many vectors as metadata records,
\* whether or not a write failed, the two files hold the same number of
\* entries
C21_AtomicPersist ==
  (call.op \in {"add_to_index", "_save_index"} /\ Len(index.vecs) = Len(metas)
     /\ faiss_file.state = "ok" /\ metas_file.state = "ok") =>
    Len(faiss_file.vecs) = Len(metas_file.recs)

\* C22: every hybrid call eventually returns, also when its embedding call
\* never completes
C22_EventuallyReturns ==
  (call.op = "hybrid" /\ call.pc = "embedding") ~>
    (call.op = "hybrid" /\ call.pc = "done")

\* C23: the provider selected at construction is the first of Azure, OpenAI,
\* local model, Null that passes its probe; a provider that did not pass a
\* probe is never selected
C23_FirstHealthyProvider ==
  (call.op = "__init__" /\ ctor = "ok") =>
    LET cfg == call.cfg
        azure == cfg.deployment /\ cfg.azure_probe
        openai == cfg.openai_key /\ cfg.openai_made /\ cfg.openai_probe
    IN /\ embedding_client = (IF azure THEN "azure"
                              ELSE IF openai THEN "openai" ELSE "none")
       /\ local_embedder = (~azure /\ ~openai /\ cfg.local_loaded)

\* C24: every candidate of the fused list has combined_score equal to its
\* reranked_score when it has one and to its score otherwise, plus 0.1 when
\* its search_type is semantic
C24_CombinedScore ==
  Returned =>
    \A n \in 1..Len(call.fused) :
      LET cand == call.fused[n]
      IN cand.combined_score =
           (IF cand.has_reranked THEN cand.reranked_score ELSE cand.score)
           + (IF cand.search_type = "semantic" THEN SemanticBonus ELSE 0)

\* the place of a returned candidate in the fused list before sorting:
\* semantic candidates in the order of vec, then lexical ones in the order
\* of lex
FusionPlace(cand) ==
  IF cand.search_type = "semantic"
    THEN CHOOSE n \in 1..Len(call.vec) :
           /\ call.vec[n].chunk_id = cand.chunk_id
           /\ \A m \in 1..(n - 1) : call.vec[m].chunk_id # cand.chunk_id
    ELSE Len(call.vec)
         + (CHOOSE n \in 1..Len(call.lex) : call.lex[n].chunk_id = cand.chunk_id)

\* C25: the list hybrid returns is ordered by non-increasing combined_score,
\* and candidates of equal combined_score keep their order from fusion
C25_StableOrder ==
  Returned =>
    \A i, j \in 1..Len(call.result) :
      i < j =>
        /\ call.result[i].combined_score >= call.result[j].combined_score
        /\ call.result[i].combined_score = call.result[j].combined_score =>
             FusionPlace(call.result[i]) < FusionPlace(call.result[j])
C25_Witness ==
  /\ Returned
  /\ \E i, j \in 1..Len(call.result) :
       /\ i < j
       /\ call.result[i].combined_score = call.result[j].combined_score
       /\ call.result[i].chunk_id # call.result[j].chunk_id

\* what a vector candidate got for document diversity: its reranked_score
\* less its score and its heading bonus
DiversityPart(cand) ==
  cand.reranked_score - cand.score
    - (IF cand.heading_path \cap call.query.words # {} THEN HeadingBonus ELSE 0)

\* C26: every vector candidate has reranked_score = score, plus 0.1 for
\* exactly one candidate of each doc_id (the highest-scored one), plus 0.05
\* when its heading_path contains a token of the query; lexical candidates
\* get no reranked_score
C26_Rerank ==
  (IsSearch /\ call.vec_status = "ok") =>
    /\ \A n \in 1..Len(call.vec) :
         /\ call.vec[n].has_reranked
         /\ DiversityPart(call.vec[n]) \in {0, DiversityBonus}
         /\ Cardinality({ m \in 1..Len(call.vec) :
               /\ call.vec[m].doc_id = call.vec[n].doc_id
               /\ DiversityPart(call.vec[m]) = DiversityBonus }) = 1
         /\ DiversityPart(call.vec[n]) = DiversityBonus =>
              \A m \in 1..Len(call.vec) :
                call.vec[m].doc_id = call.vec[n].doc_id =>
                  call.vec[m].score <= call.vec[n].score
    /\ Returned =>
         \A n \in 1..Len(call.fused) :
           call.fused[n].search_type = "lexical" =>
             ~call.fused[n].has_reranked /\ call.fused[n].reranked_score = 0
C26_Witness ==
  /\ Returned
  /\ \E n, m \in 1..Len(call.vec) :
       /\ n # m /\ call.vec[n].doc_id = call.vec[m].doc_id
       /\ call.vec[n].reranked_score = call.vec[n].score + DiversityBonus + HeadingBonus
       /\ call.vec[m].reranked_score = call.vec[m].score
  /\ call.lex # << >>

\* the entries of a list with the given search_type
OfType(s, type) == SelectSeq(s, LAMBDA cand : cand.search_type = type)

\* C27: in fusion (for final_k >= 1) every semantic candidate is appended,
\* and a lexical candidate is appended only while the fused list holds
\* fewer than 2 * final_k entries: the list never has more than 2 * final_k
\* entries unless the semantic candidates alone are that many, and then it
\* has no lexical entry
C27_LexicalCap ==
  (Returned /\ call.final_k >= 1) =>
    /\ Len(OfType(call.fused, "semantic")) = Cardinality(ChunkIds(call.vec))
    /\ \/ Len(call.fused) <= 2 * call.final_k
       \/ OfType(call.fused, "lexical") = << >>

\* C28: every candidate hybrid returns whose chunk_id is a row of the
\* document store carries the stored text of that row, whatever the other
\* chunk_ids of the result are
C28_TextHydrated ==
  Returned =>
    \A n \in 1..Len(call.result) :
      LET cand == call.result[n]
      IN (IsInt(cand.chunk_id) /\ Int_(cand.chunk_id) \in RowIds) =>
           cand.text = Rows[Int_(cand.chunk_id)].content

\* C29: once update_password has succeeded for a user, authenticate refuses
\* that user with every password other than the one it set, whichever store
\* still holds an earlier password
C29_OldPasswordRejected ==
  (/\ call.op = "authenticate"
   /\ auth.changed[call.username] # Absent
   /\ call.password # auth.changed[call.username]) => ~call.success

\* the calls for ip that returned True with a timestamp in from..to
RECURSIVE GrantedIn(_, _, _)
GrantedIn(ip, from, to) ==
  IF from > to THEN 0
  ELSE limiter.granted[ip][from] + GrantedIn(ip, from + 1, to)

\* C30: whatever the interleaving and the number of identifiers, no
\* identifier has more than max_requests allowed requests with timestamps
\* in one window of window_seconds
C30_WindowLimit ==
  \A ip \in Identifiers, start \in 0..MaxClock :
    GrantedIn(ip, start, Min(start + window_seconds - 1, MaxClock))
      <= max_requests

====
